---- MODULE Spec2Model ----
(***************************************************************************)
(* A model of the aria2 Telegram bot (src/src): the task monitor loop      *)
(* (task_monitor.py), the notification reconciler (notification_service.py *)
(* over history.py) and the command / callback / conversation handlers     *)
(* (handlers/*.py), each over a small engine (aria2_client.py).            *)
(*                                                                         *)
(* Eight specifications share the variables:                               *)
(*   SpecMon     the TaskMonitor component: its public register/unregister *)
(*               API, the engine, and the loop cut at its await points;    *)
(*   SpecNotify  check_and_notify cut at its await points, storage and     *)
(*               transport faults, process crash and restart;              *)
(*   SpecBot     the update dispatcher: every command, callback and        *)
(*               conversation handler as one step;                         *)
(*   SpecStore   the history table under add_history and its queries;      *)
(*   SpecLife    start-up and shutdown of the process;                     *)
(*   SpecLoops   the monitor loop and the reconciler job under the fair    *)
(*               scheduling of the event loop;                             *)
(*   SpecRace    the monitor loop against register_task and the remove     *)
(*               button of one message;                                    *)
(*   SpecUpsert  concurrent add_history calls cut at their await points.   *)
(***************************************************************************)
EXTENDS Integers, Sequences, FiniteSets, TLC

\* ------------------------------------------------------------------ bounds
NGids == 2          \* gids known to the engine
NMsgs == 2          \* monitored messages of the chat
MaxProg == 1        \* progress levels of an active download
NAuth == 1          \* authorized users; one more user is not authorized
NNotify == 2        \* recipients of notifications
MaxTs == 2          \* timestamps of history rows
MaxCrashes == 1     \* process crashes in one behaviour
MaxDbFaults == 1    \* storage failures in one behaviour
MaxCount == 2       \* the ghost counters saturate here
MaxId == 3          \* row ids the history table hands out
MaxKeep == 1        \* configured max_history ranges over 0..MaxKeep
MaxPage == 3        \* page numbers asked of get_history
MaxPageSize == 2    \* page sizes asked of get_history
MaxTasks == 3       \* monitor loop tasks created in one behaviour
NMonGids == 1       \* gids handed to the monitor while its loop is explored
config_items_per_page == 1  \* pagination.items_per_page of the configuration
NCallers == 2       \* coroutines inside add_history at one time

Gids == 1..NGids
Chats == {1}
MsgIds == 1..NMsgs
Keys == Chats \X MsgIds
Users == 1..(NAuth + 1)
authorized_users == 1..NAuth
notify_users == 1..NNotify
Timestamps == 1..MaxTs

NoGid == 0
\* Config.max_history: the default of database.max_history.
max_history == 100
NoText == <<>>

Min(S) == CHOOSE x \in S : \A y \in S : x <= y
Sat(n) == IF n >= MaxCount THEN MaxCount ELSE n + 1
Drop(f, k) == [x \in DOMAIN f \ {k} |-> f[x]]
Put(f, k, v) == [x \in DOMAIN f \cup {k} |-> IF x = k THEN v ELSE f[x]]

VARIABLES
    \* engine (aria2): gid -> [status, progress]
    eng,
    \* TaskMonitor
    monitored_tasks,    \* sequence of [key, gid], in dict insertion order
    last_content,       \* key -> last text successfully pushed
    mpc,                \* where _monitor_loop is suspended
    current_monitors,   \* the tick's copy of monitored_tasks
    results,            \* the tick's gathered fetch outcomes
    idx,                \* index of the entry whose edit is awaited
    cur_text,           \* text of the edit that is awaited
    issued,             \* indices of the tick for which an edit was called
    owed,               \* key -> consecutive ticks that fetched a terminal
                        \* outcome for the entry and left it registered;
                        \* -1 once the API touched the key during the tick
    buttons,            \* messages that carry the control keyboard by the
                        \* monitor's last edit_message_text Telegram served
    \* history store and reconciler
    history,            \* gid -> [status, timestamp, notified]
    notification_enabled,
    npc,                \* where check_and_notify is suspended
    unnotified_tasks,   \* the tick's list of rows (gids with the row read)
    nidx,
    send_ok,            \* recipients the current record was delivered to
    sent,               \* <<gid, user>> -> send_message calls
    flips,              \* gid -> times notified went from false to true
    mark_failed,        \* gids whose mark_as_notified raised
    resend_due,         \* <<gid, user>> delivered, then crash before mark
    crashes,
    db_faults,
    \* dispatcher
    conv,               \* <<chat, user>> conversations in CONFIRM_CLEAR
    refused,            \* check_authorized has refused an update
    states,             \* bot_data['states']: view -> user -> page cursor
    \* the download_history table of HistoryManager, column by column
    db,                 \* id -> [gid, status, timestamp, notified, files, extra]
    seq,                \* AUTOINCREMENT: the largest id handed out so far
    self_max_history,   \* HistoryManager.max_history, read from the config
    tie_order,          \* how the SQL engine orders rows of equal timestamp
    reply,              \* the last HistoryManager call and what it returned
    calls,              \* caller -> where its add_history coroutine is suspended
    \* TaskMonitor.start / stop
    running,            \* TaskMonitor._running
    monitor_task,       \* TaskMonitor._monitor_task: a task or NoTask
    loops,              \* task -> where that _monitor_loop task is
    stop_waits          \* tasks awaited by suspended stop() calls

tickVars == <<mpc, current_monitors, results, idx, cur_text, issued>>
monVars == <<monitored_tasks, last_content, tickVars, owed, buttons>>
notifyVars == <<notification_enabled, npc, unnotified_tasks, nidx, send_ok,
                sent, flips, mark_failed, resend_due, crashes, db_faults>>
botVars == <<conv, refused, states>>
storeVars == <<db, seq, self_max_history, tie_order, reply, calls>>
lifeVars == <<running, monitor_task, loops, stop_waits>>
vars == <<eng, history, monVars, notifyVars, botVars, storeVars, lifeVars>>

\* ------------------------------------------------------------------ engine
LiveStatus == {"active", "waiting", "paused"}
TerminalStatus == {"complete", "error", "removed"}
Absent == [status |-> "none", progress |-> 0]

\* What aria2 itself may do to a download between two RPC calls.
EngineNext(d) ==
    CASE d.status = "active" ->
            {[status |-> "complete", progress |-> MaxProg],
             [status |-> "error", progress |-> 0]}
      [] d.status = "waiting" -> {[status |-> "active", progress |-> 0]}
      [] d.status \in TerminalStatus -> {Absent}
      [] OTHER -> {}

EngineStep(g) ==
    /\ \E d \in EngineNext(eng[g]) : eng' = [eng EXCEPT ![g] = d]
    /\ UNCHANGED <<history, monVars, notifyVars, botVars, storeVars, lifeVars>>

\* Every state aria2 may report a download in.
EngineStates ==
    {Absent}
    \cup {[status |-> "active", progress |-> p] : p \in 0..MaxProg}
    \cup {[status |-> "paused", progress |-> p] : p \in 0..MaxProg}
    \cup {[status |-> "waiting", progress |-> 0]}
    \cup {[status |-> "complete", progress |-> MaxProg]}
    \cup {[status |-> st, progress |-> 0] : st \in {"error", "removed"}}

\* Aria2Client.get_download: the outcomes of one call served while the download
\* is in state d.
FetchResult(kind, d) == [kind |-> kind, status |-> d.status, progress |-> d.progress]
get_download(d) ==
    {FetchResult("aria2err", Absent)}
    \cup (IF d.status = "none"
          THEN {FetchResult("notfound", Absent)}
          ELSE {FetchResult("snap", d)})

\* ------------------------------------------------------------- TaskMonitor
HasKey(mt, key) == \E i \in 1..Len(mt) : mt[i].key = key
GidOf(mt, key) ==
    IF HasKey(mt, key)
    THEN mt[CHOOSE i \in 1..Len(mt) : mt[i].key = key].gid
    ELSE NoGid
Cached(lc, key) == IF key \in DOMAIN lc THEN lc[key] ELSE NoText

unregister_task_Keep(mt, key) == mt
unregister_task(mt, key) == SelectSeq(mt, LAMBDA e : e.key # key)

register_task(mt, key, gid) ==
    IF HasKey(mt, key)
    THEN [i \in 1..Len(mt) |->
            IF mt[i].key = key THEN [key |-> key, gid |-> gid] ELSE mt[i]]
    ELSE Append(mt, [key |-> key, gid |-> gid])

\* utils.format_task_info_html under the "task detail" header: the text shows
\* the gid, the status word and the progress.
Render(gid, r) == <<"detail", gid, r.status, r.progress>>
GoneText(gid) == <<"gone", gid>>

IsFinished(r) == r.status = "complete" \/ r.status = "removed" \/ r.status = "error"
IsTerminalOutcome(r) == r.kind = "notfound" \/ (r.kind = "snap" /\ IsFinished(r))

NeedsLiveEdit_Always(text, last_text) == TRUE
\* Line 181: if full_message_text != last_text.
NeedsLiveEdit(text, last_text) == text # last_text

NeedsEdit_OnFetchError(cm, rs, j, mt, lc) ==
    /\ HasKey(mt, cm[j].key)
    /\ \/ rs[j].kind \in {"notfound", "aria2err"}
       \/ /\ rs[j].kind = "snap"
          /\ \/ IsFinished(rs[j])
             \/ NeedsLiveEdit(Render(cm[j].gid, rs[j]), Cached(lc, cm[j].key))
\* Whether processing entry j of the tick calls edit_message_text.
NeedsEdit(cm, rs, j, mt, lc) ==
    /\ HasKey(mt, cm[j].key)
    /\ \/ rs[j].kind = "notfound"
       \/ /\ rs[j].kind = "snap"
          /\ \/ IsFinished(rs[j])
             \/ NeedsLiveEdit(Render(cm[j].gid, rs[j]), Cached(lc, cm[j].key))

\* The for loop runs without suspension up to the next entry that awaits an edit.
NextIdx(cm, rs, i, mt, lc) ==
    LET S == {j \in i..Len(cm) : NeedsEdit(cm, rs, j, mt, lc)}
    IN IF S = {} THEN Len(cm) + 1 ELSE Min(S)

TextOf(cm, rs, j) ==
    IF rs[j].kind = "notfound" THEN GoneText(cm[j].gid) ELSE Render(cm[j].gid, rs[j])

\* The ghost count behind "retired within one more tick".
OwedAfter(cm, rs, mt) ==
    [k \in Keys |->
        IF \E j \in 1..Len(cm) :
              cm[j].key = k /\ IsTerminalOutcome(rs[j]) /\ owed[k] >= 0 /\ HasKey(mt, k)
        THEN Sat(owed[k]) ELSE 0]

\* The tick is over: its locals go out of scope.
EndTick(cm, rs, mt) ==
    /\ mpc' = "sleep"
    /\ current_monitors' = <<>>
    /\ results' = <<>>
    /\ idx' = 1
    /\ cur_text' = NoText
    /\ issued' = {}
    /\ owed' = OwedAfter(cm, rs, mt)

\* Continue the for loop at entry i with the registry and cache as given.
Resume(cm, rs, i, mt, lc) ==
    LET j == NextIdx(cm, rs, i, mt, lc) IN
    IF j > Len(cm)
    THEN EndTick(cm, rs, mt)
    ELSE /\ mpc' = IF IsTerminalOutcome(rs[j]) THEN "final" ELSE "live"
         /\ current_monitors' = cm
         /\ results' = rs
         /\ idx' = j
         /\ cur_text' = TextOf(cm, rs, j)
         /\ issued' = issued \cup {j}
         /\ owed' = owed

\* Lines 115-124: the snapshot of the registry that starts a tick.
MonTick ==
    /\ mpc = "sleep"
    /\ IF monitored_tasks = <<>>
       THEN UNCHANGED monVars
       ELSE /\ current_monitors' = monitored_tasks
            /\ mpc' = "fetch"
            /\ UNCHANGED <<monitored_tasks, last_content, results, idx, cur_text,
                           issued, owed, buttons>>
    /\ UNCHANGED <<eng, history, notifyVars, botVars, storeVars, lifeVars>>

\* The gids the component is handed while its loop is explored.
MonGids == 1..NMonGids

\* The engine is not the monitor's: each call of a tick is served in whatever
\* state the download is in at that moment.
MonEngineStates ==
    {d \in EngineStates : d.status \in {"none", "active", "complete", "error", "removed"}}

\* Lines 129-131: gather returns; the for loop starts.
MonFetch ==
    /\ mpc = "fetch"
    /\ \E rs \in [1..Len(current_monitors) -> UNION {get_download(d) : d \in MonEngineStates}] :
          Resume(current_monitors, rs, 1, monitored_tasks, last_content)
    /\ UNCHANGED <<monitored_tasks, last_content, buttons>>
    /\ UNCHANGED <<eng, history, notifyVars, botVars, storeVars, lifeVars>>

EditOutcomes == {"ok", "retry_after", "not_modified", "gone", "bad_request",
                 "telegram_error", "unexpected"}

\* utils.create_task_control_keyboard (lines 367-384): the pause, resume and
\* remove buttons of the gid.  reply_markup=None is no keyboard.
NoMarkup == <<"none">>
create_task_control_keyboard(gid) == <<"pause", "resume", "remove", gid>>

MarkupOf_Keyboard(cm, rs, j) == create_task_control_keyboard(cm[j].gid)
\* The reply_markup of the edit the loop awaits for entry j: None at lines 147
\* and 172, the control keyboard at line 178.
MarkupOf(cm, rs, j) ==
    IF IsTerminalOutcome(rs[j]) THEN NoMarkup
    ELSE create_task_control_keyboard(cm[j].gid)

\* bot.edit_message_text as Telegram serves it: an accepted edit puts the
\* markup on the message, "message is not modified" tells that the message
\* already carries it, a message that is gone carries none, any other outcome
\* leaves the message as it was.
Landed(b, key, markup, outcome) ==
    CASE outcome \in {"ok", "not_modified"} ->
            IF markup = NoMarkup THEN b \ {key} ELSE b \cup {key}
      [] outcome = "gone" -> b \ {key}
      [] OTHER -> b

\* "message is not modified" is only answered for a message that already is
\* what the edit asks for: never to an edit that would take a keyboard away.
Feasible(b, key, markup, outcome) ==
    (outcome = "not_modified" /\ markup = NoMarkup) => key \notin b

loop_except_Propagate(exc) == IF exc = "CancelledError" THEN "break" ELSE "raise"
\* _monitor_loop, lines 194-202: CancelledError leaves the while loop, any other
\* Exception is logged and followed by sleep(update_interval * 2).
loop_except(exc) == IF exc = "CancelledError" THEN "break" ELSE "backoff"

\* Lines 147-148, 172-173 with _update_message_final: whatever the edit did,
\* the entry is unregistered.
MonFinalDone(outcome) ==
    /\ mpc = "final"
    /\ LET key == current_monitors[idx].key
           markup == MarkupOf(current_monitors, results, idx)
           mt == unregister_task(monitored_tasks, key)
           lc == Drop(last_content, key)
       IN /\ Feasible(buttons, key, markup, outcome)
          /\ buttons' = Landed(buttons, key, markup, outcome)
          /\ monitored_tasks' = mt
          /\ last_content' = lc
          /\ Resume(current_monitors, results, idx + 1, mt, lc)
    /\ UNCHANGED <<eng, history, notifyVars, botVars, storeVars, lifeVars>>

update_message_live_GoneOk(outcome) ==
    CASE outcome \in {"ok", "not_modified", "gone"} -> "true"
      [] outcome = "retry_after" -> "retry"
      [] OTHER -> "false"
\* _update_message_live, first attempt (lines 224-233, 252-274).
update_message_live(outcome) ==
    CASE outcome \in {"ok", "not_modified"} -> "true"
      [] outcome = "retry_after" -> "retry"
      [] OTHER -> "false"

update_message_retry_Fail(outcome) == IF outcome = "unexpected" THEN "raise" ELSE "false"
\* _update_message_live, the retry (lines 239-251): only TelegramError is caught.
update_message_retry(outcome) ==
    CASE outcome = "ok" -> "true"
      [] outcome = "unexpected" -> "raise"
      [] OTHER -> "false"

\* Lines 184-190: what the loop does with the bool _update_message_live returned.
AfterLive(updated) ==
    LET key == current_monitors[idx].key
        mt == IF updated THEN monitored_tasks ELSE unregister_task(monitored_tasks, key)
        lc == IF updated THEN Put(last_content, key, cur_text) ELSE Drop(last_content, key)
    IN /\ monitored_tasks' = mt
       /\ last_content' = lc
       /\ Resume(current_monitors, results, idx + 1, mt, lc)

MonLiveDone(outcome) ==
    /\ mpc = "live"
    /\ LET r == update_message_live(outcome)
           key == current_monitors[idx].key
           markup == MarkupOf(current_monitors, results, idx)
       IN /\ Feasible(buttons, key, markup, outcome)
          /\ buttons' = Landed(buttons, key, markup, outcome)
          /\ IF r = "retry"
             THEN /\ mpc' = "retry"
                  /\ UNCHANGED <<monitored_tasks, last_content, current_monitors,
                                 results, idx, cur_text, issued, owed>>
             ELSE AfterLive(r = "true")
    /\ UNCHANGED <<eng, history, notifyVars, botVars, storeVars, lifeVars>>

MonRetryDone(outcome) ==
    /\ mpc = "retry"
    /\ LET r == update_message_retry(outcome)
           key == current_monitors[idx].key
           markup == MarkupOf(current_monitors, results, idx)
       IN /\ Feasible(buttons, key, markup, outcome)
          /\ buttons' = Landed(buttons, key, markup, outcome)
          /\ IF r = "raise"
             THEN \* the exception leaves the try block of the loop
                  IF loop_except("Exception") = "backoff"
                  THEN /\ EndTick(current_monitors, results, monitored_tasks)
                       /\ UNCHANGED <<monitored_tasks, last_content>>
                  ELSE /\ mpc' = "dead"
                       /\ UNCHANGED <<monitored_tasks, last_content, current_monitors,
                                      results, idx, cur_text, issued, owed>>
             ELSE AfterLive(r = "true")
    /\ UNCHANGED <<eng, history, notifyVars, botVars, storeVars, lifeVars>>

\* What a call of register_task / unregister_task does to the component.
DoRegister(key, gid) ==
    /\ IF GidOf(monitored_tasks, key) = gid
       THEN UNCHANGED <<monitored_tasks, last_content>>
       ELSE /\ monitored_tasks' = register_task(monitored_tasks, key, gid)
            /\ last_content' = Drop(last_content, key)
    /\ owed' = [owed EXCEPT ![key] = IF mpc = "sleep" THEN 0 ELSE -1]

DoUnregister(key) ==
    /\ monitored_tasks' = unregister_task(monitored_tasks, key)
    /\ last_content' = Drop(last_content, key)
    /\ owed' = [owed EXCEPT ![key] = IF mpc = "sleep" THEN 0 ELSE -1]

\* TaskMonitor.register_task (lines 77-95), called by a user of the component.
Register(key, gid) ==
    /\ DoRegister(key, gid)
    /\ UNCHANGED <<tickVars, buttons, eng, history, notifyVars, botVars, storeVars, lifeVars>>

\* TaskMonitor.unregister_task (lines 97-110), called by a user of the component.
Unregister(key) ==
    /\ DoUnregister(key)
    /\ UNCHANGED <<tickVars, buttons, eng, history, notifyVars, botVars, storeVars, lifeVars>>

InitMonitor ==
    /\ monitored_tasks = <<>>
    /\ last_content = <<>>
    /\ mpc = "sleep"
    /\ current_monitors = <<>>
    /\ results = <<>>
    /\ idx = 1
    /\ cur_text = NoText
    /\ issued = {}
    /\ owed = [k \in Keys |-> 0]
    /\ buttons = {}

InitNotifyIdle ==
    /\ notification_enabled = TRUE
    /\ npc = "idle"
    /\ unnotified_tasks = <<>>
    /\ nidx = 1
    /\ send_ok = {}
    /\ sent = [p \in Gids \X notify_users |-> 0]
    /\ flips = [g \in Gids |-> 0]
    /\ mark_failed = {}
    /\ resend_due = {}
    /\ crashes = 0
    /\ db_faults = 0

\* bot_app.py line 100: bot_data.setdefault('states', {}).
bot_data_states == <<>>

InitBotIdle ==
    /\ conv = {}
    /\ refused = FALSE
    /\ states = bot_data_states

\* HistoryManager.__init__ and init_db on a new database file; the reply of a
\* manager that was not called yet.
NoReply == [op |-> "none"]
\* No coroutine is inside add_history.
Callers == 1..NCallers
IdleCall == [pc |-> "idle"]
NoCalls == [c \in Callers |-> IdleCall]
InitStoreIdle ==
    /\ db = <<>>
    /\ seq = 0
    /\ self_max_history = max_history
    /\ tie_order = "id_asc"
    /\ reply = NoReply
    /\ calls = NoCalls

\* TaskMonitor.__init__ (lines 43-44); in the specifications of the loop's
\* ticks the one loop task of main.py is running throughout.
NoTask == 0
InitLifeIdle ==
    /\ running = FALSE
    /\ monitor_task = NoTask
    /\ loops = [t \in 1..MaxTasks |-> "unborn"]
    /\ stop_waits = {}

InitMon ==
    /\ eng = [g \in Gids |-> Absent]
    /\ history = <<>>
    /\ InitMonitor
    /\ InitNotifyIdle
    /\ InitBotIdle
    /\ InitStoreIdle
    /\ InitLifeIdle

NextMon ==
    \/ \E k \in Keys, g \in MonGids : Register(k, g)
    \/ \E k \in Keys : Unregister(k)
    \/ MonTick
    \/ MonFetch
    \/ \E o \in EditOutcomes : MonFinalDone(o)
    \/ \E o \in EditOutcomes : MonLiveDone(o)
    \/ \E o \in EditOutcomes : MonRetryDone(o)

SpecMon == InitMon /\ [][NextMon]_vars

\* ----------------------------------------------------------- history store
NotifiableStatus == {"completed", "error"}
HistoryStatus == {"completed", "error", "removed"}

Row(status, ts, notified) == [status |-> status, timestamp |-> ts, notified |-> notified]

\* HistoryManager._trim_history (lines 508-553): the rows left when the oldest
\* ones beyond max_history are deleted; equal timestamps leave the choice open.
trim_history(h) ==
    IF max_history <= 0 \/ Cardinality(DOMAIN h) <= max_history
    THEN {h}
    ELSE {[g \in DOMAIN h \ D |-> h[g]] :
            D \in {X \in SUBSET DOMAIN h :
                      /\ Cardinality(X) = Cardinality(DOMAIN h) - max_history
                      /\ \A x \in X, y \in DOMAIN h \ X :
                            h[x].timestamp <= h[y].timestamp}}

\* HistoryManager.add_history (lines 130-213): UPDATE by gid, INSERT when no row
\* matched, commit, trim.  The notified column takes the caller's flag.
add_history(h, gid, status, ts, notified) ==
    trim_history(Put(h, gid, Row(status, ts, notified)))

mark_as_notified_Noop(h, gid) == h
\* HistoryManager.mark_as_notified (lines 338-369): UPDATE ... SET notified = 1.
mark_as_notified(h, gid) ==
    IF gid \in DOMAIN h THEN [h EXCEPT ![gid].notified = TRUE] ELSE h

get_unnotified_completed_CompletedOnly(h) ==
    {g \in DOMAIN h : ~h[g].notified /\ h[g].status = "completed"}
get_unnotified_completed_IgnoreFlag(h) ==
    {g \in DOMAIN h : h[g].status \in NotifiableStatus}
get_unnotified_completed_AnyStatus(h) ==
    {g \in DOMAIN h : ~h[g].notified}
\* HistoryManager.get_unnotified_completed (lines 371-412): the rows selected.
get_unnotified_completed(h) ==
    {g \in DOMAIN h : ~h[g].notified /\ h[g].status \in NotifiableStatus}

\* ... ORDER BY timestamp DESC: every order of the rows that respects it.
UnnotifiedLists(h) ==
    LET S == get_unnotified_completed(h)
        n == Cardinality(S)
    IN {[i \in 1..n |-> [gid |-> f[i], status |-> h[f[i]].status]] :
          f \in {x \in [1..n -> S] :
                   /\ \A i, j \in 1..n : i # j => x[i] # x[j]
                   /\ \A i, j \in 1..n :
                         i < j => h[x[i]].timestamp >= h[x[j]].timestamp}}

\* HistoryManager.clear_history (lines 483-506).
clear_history(h) == <<>>

\* --------------------------------------------------- NotificationService
\* _send_notification (lines 71-80, 100): who is sent a record of this status.
SendTargets(status) == IF status \in NotifiableStatus THEN notify_users ELSE {}

NotifyIdle ==
    /\ npc' = "idle"
    /\ unnotified_tasks' = <<>>
    /\ nidx' = 1
    /\ send_ok' = {}

\* check_and_notify up to its first sleep (lines 39-55).
NotifyTick(db_ok) ==
    /\ npc = "idle"
    /\ IF ~notification_enabled
       THEN UNCHANGED <<npc, unnotified_tasks, nidx, send_ok, db_faults>>
       ELSE IF ~db_ok
       THEN /\ db_faults < MaxDbFaults
            /\ db_faults' = db_faults + 1
            /\ UNCHANGED <<npc, unnotified_tasks, nidx, send_ok>>
       ELSE /\ \E l \in UnnotifiedLists(history) :
                 IF l = <<>>
                 THEN UNCHANGED <<npc, unnotified_tasks, nidx, send_ok>>
                 ELSE /\ npc' = "send"
                      /\ unnotified_tasks' = l
                      /\ UNCHANGED <<nidx, send_ok>>
            /\ UNCHANGED db_faults
    /\ UNCHANGED <<notification_enabled, sent, flips, mark_failed, resend_due, crashes>>
    /\ UNCHANGED <<eng, history, monVars, botVars, storeVars, lifeVars>>

\* _send_notification (lines 62-112): one send_message per recipient, each
\* failure logged and dropped; ok is the set of recipients that were reached.
NotifySend(ok) ==
    /\ npc = "send"
    /\ LET task == unnotified_tasks[nidx]
           to == SendTargets(task.status)
       IN /\ ok \subseteq to
          /\ sent' = [p \in DOMAIN sent |->
                        IF p[1] = task.gid /\ p[2] \in to THEN Sat(sent[p]) ELSE sent[p]]
          /\ send_ok' = ok
    /\ npc' = "mark"
    /\ UNCHANGED <<notification_enabled, unnotified_tasks, nidx, flips, mark_failed,
                   resend_due, crashes, db_faults>>
    /\ UNCHANGED <<eng, history, monVars, botVars, storeVars, lifeVars>>

\* Line 57, then the next turn of the for loop or the end of the tick; a
\* DatabaseError leaves through the except of line 59.
NotifyMark(db_ok) ==
    /\ npc = "mark"
    /\ LET gid == unnotified_tasks[nidx].gid IN
       IF db_ok
       THEN /\ history' = mark_as_notified(history, gid)
            /\ flips' = [flips EXCEPT ![gid] =
                            IF gid \in DOMAIN history /\ ~history[gid].notified
                               /\ history'[gid].notified
                            THEN Sat(@) ELSE @]
            /\ IF nidx < Len(unnotified_tasks)
               THEN /\ npc' = "send"
                    /\ nidx' = nidx + 1
                    /\ send_ok' = {}
                    /\ UNCHANGED unnotified_tasks
               ELSE NotifyIdle
            /\ UNCHANGED <<mark_failed, db_faults>>
       ELSE /\ db_faults < MaxDbFaults
            /\ db_faults' = db_faults + 1
            /\ mark_failed' = mark_failed \cup {gid}
            /\ NotifyIdle
            /\ UNCHANGED <<history, flips>>
    /\ UNCHANGED <<notification_enabled, sent, resend_due, crashes>>
    /\ UNCHANGED <<eng, monVars, botVars, storeVars, lifeVars>>

\* The process dies inside a tick and is started again: the store is on disk,
\* the tick's locals are gone.
Crash ==
    /\ npc # "idle"
    /\ crashes < MaxCrashes
    /\ crashes' = crashes + 1
    /\ resend_due' = IF npc = "mark"
                     THEN resend_due \cup {<<unnotified_tasks[nidx].gid, u>> : u \in send_ok}
                     ELSE resend_due
    /\ NotifyIdle
    /\ UNCHANGED <<notification_enabled, sent, flips, mark_failed, db_faults>>
    /\ UNCHANGED <<eng, history, monVars, botVars, storeVars, lifeVars>>

Histories ==
    UNION {[D -> {Row(st, ts, n) : st \in HistoryStatus, ts \in Timestamps, n \in BOOLEAN}] :
             D \in SUBSET Gids}

InitNotify ==
    /\ eng = [g \in Gids |-> Absent]
    /\ history \in Histories
    /\ InitMonitor
    /\ notification_enabled \in BOOLEAN
    /\ npc = "idle"
    /\ unnotified_tasks = <<>>
    /\ nidx = 1
    /\ send_ok = {}
    /\ sent = [p \in Gids \X notify_users |-> 0]
    /\ flips = [g \in Gids |-> 0]
    /\ mark_failed = {}
    /\ resend_due = {}
    /\ crashes = 0
    /\ db_faults = 0
    /\ InitBotIdle
    /\ InitStoreIdle
    /\ InitLifeIdle

ReconcilerStep ==
    \/ \E db_ok \in BOOLEAN : NotifyTick(db_ok)
    \/ \E ok \in SUBSET notify_users : NotifySend(ok)
    \/ \E db_ok \in BOOLEAN : NotifyMark(db_ok)

NextNotify ==
    \/ ReconcilerStep
    \/ Crash

\* The scheduler keeps firing the job and every await of a tick returns.
SpecNotify == InitNotify /\ [][NextNotify]_vars /\ WF_vars(ReconcilerStep)

\* ------------------------------------------------- Aria2Client mutations
Outcome(res, gid, e) == [res |-> res, gid |-> gid, eng |-> e]
Download(status, progress) == [status |-> status, progress |-> progress]
Gone(d) == d.status = "none" \/ d.status \in TerminalStatus

\* Aria2Client.add_download (lines 80-113): a fresh gid, or Aria2Error.
add_download(e) ==
    {Outcome("aria2err", NoGid, e)}
    \cup {Outcome("ok", g, [e EXCEPT ![g] = Download(st, 0)]) :
            g \in {x \in Gids : e[x] = Absent}, st \in {"active", "waiting"}}

\* Aria2Client.pause_download (lines 296-328).
pause_download(e, g) ==
    {Outcome("aria2err", g, e)}
    \cup (IF e[g].status \in {"active", "waiting"}
          THEN {Outcome("ok", g, [e EXCEPT ![g] = Download("paused", e[g].progress)])}
          ELSE {})
    \cup (IF Gone(e[g]) THEN {Outcome("notfound", g, e)} ELSE {})

\* Aria2Client.resume_download (lines 330-362).
resume_download(e, g) ==
    {Outcome("aria2err", g, e)}
    \cup (IF e[g].status = "paused"
          THEN {Outcome("ok", g, [e EXCEPT ![g] = Download("active", e[g].progress)])}
          ELSE {})
    \cup (IF Gone(e[g]) THEN {Outcome("notfound", g, e)} ELSE {})

\* Aria2Client.remove_download (lines 364-401): remove, then the purge of the
\* result.  A ClientException of the purge is dropped (the result stays as
\* "removed"); any other exception of the purge turns into Aria2RequestError
\* although the download is removed.
remove_download(e, g) ==
    {Outcome("aria2err", g, e)}
    \cup (IF e[g].status \in LiveStatus
          THEN {Outcome("ok", g, [e EXCEPT ![g] = Absent]),
                Outcome("ok", g, [e EXCEPT ![g] = Download("removed", 0)]),
                Outcome("aria2err", g, [e EXCEPT ![g] = Download("removed", 0)])}
          ELSE {})
    \cup (IF Gone(e[g]) THEN {Outcome("notfound", g, e)} ELSE {})

\* Aria2Client.pause_all (lines 403-424).
pause_all(e) ==
    {Outcome("aria2err", NoGid, e), Outcome("false", NoGid, e),
     Outcome("ok", NoGid,
             [g \in Gids |-> IF e[g].status \in {"active", "waiting"}
                             THEN Download("paused", e[g].progress) ELSE e[g]])}

\* Aria2Client.resume_all (lines 426-447).
resume_all(e) ==
    {Outcome("aria2err", NoGid, e), Outcome("false", NoGid, e),
     Outcome("ok", NoGid,
             [g \in Gids |-> IF e[g].status = "paused"
                             THEN Download("active", e[g].progress) ELSE e[g]])}

\* --------------------------------------------------------------- handlers
calculate_total_pages_NoFloor(total_items, items_per_page) ==
    (total_items + items_per_page - 1) \div items_per_page
\* utils.calculate_total_pages (lines 386-397): max(1, ceil(total / per_page)).
calculate_total_pages(total_items, items_per_page) ==
    LET ceil == (total_items + items_per_page - 1) \div items_per_page
    IN IF ceil < 1 THEN 1 ELSE ceil

check_authorized_Anyone(u) == TRUE
\* auth.check_authorized (lines 8-33): the membership test.
check_authorized(u) == u \in authorized_users

botState == <<eng, history, monitored_tasks, last_content, owed, conv>>
OtherVars == <<tickVars, buttons, notifyVars, states, storeVars, lifeVars>>

\* auth.check_authorized, the refusal (lines 27-33): a denial is answered.
Refuse ==
    /\ refused' = TRUE
    /\ UNCHANGED <<botState, OtherVars>>

\* A handler that ends with a reply only.
ReplyOnly == UNCHANGED <<botState, refused, OtherVars>>

ArgForms == {"missing", "invalid", "valid"}
NoBotChange ==
    UNCHANGED <<history, monitored_tasks, last_content, owed, conv, refused, OtherVars>>

\* command_handlers.cmd_add (lines 64-130).
CmdAdd(u) ==
    IF ~check_authorized(u) THEN Refuse
    ELSE \E form \in ArgForms :
        IF form # "valid" THEN ReplyOnly
        ELSE \E o \in add_download(eng) : eng' = o.eng /\ NoBotChange

\* command_handlers.cmd_pause (lines 258-334).
CmdPause(u) ==
    IF ~check_authorized(u) THEN Refuse
    ELSE \E form \in ArgForms :
        IF form # "valid" THEN ReplyOnly
        ELSE \E g \in Gids : \E o \in pause_download(eng, g) :
                eng' = o.eng /\ NoBotChange

\* command_handlers.cmd_unpause (lines 336-412).
CmdUnpause(u) ==
    IF ~check_authorized(u) THEN Refuse
    ELSE \E form \in ArgForms :
        IF form # "valid" THEN ReplyOnly
        ELSE \E g \in Gids : \E o \in resume_download(eng, g) :
                eng' = o.eng /\ NoBotChange

\* The history write of both remove handlers after a remove that returned:
\* only with the preliminary snapshot in hand.  written tells whether
\* add_history returned; a DatabaseError leaves the store as it was.
RemovedRow(g, written) ==
    \E t \in get_download(eng[g]) :
        IF t.kind # "snap"
        THEN history' = history /\ written
        ELSE \/ /\ written
                /\ \E ts \in Timestamps :
                      history' \in add_history(history, g, "removed", ts, FALSE)
             \/ /\ ~written
                /\ history' = history

\* command_handlers.cmd_remove (lines 414-503).
CmdRemove(u) ==
    IF ~check_authorized(u) THEN Refuse
    ELSE \E form \in ArgForms :
        IF form # "valid" THEN ReplyOnly
        ELSE \E g \in Gids : \E o \in remove_download(eng, g) :
                /\ eng' = o.eng
                /\ IF o.res = "ok"
                   THEN \E written \in BOOLEAN : RemovedRow(g, written)
                   ELSE history' = history
                /\ UNCHANGED <<monitored_tasks, last_content, owed, conv, refused,
                               OtherVars>>

ActiveCount(e) == Cardinality({g \in Gids : e[g].status = "active"})

\* command_handlers.cmd_pauseall (lines 505-556).
CmdPauseAll(u) ==
    IF ~check_authorized(u) THEN Refuse
    ELSE IF ActiveCount(eng) = 0 THEN ReplyOnly
    ELSE \E o \in pause_all(eng) : eng' = o.eng /\ NoBotChange

\* command_handlers.cmd_unpauseall (lines 558-598).
CmdUnpauseAll(u) ==
    IF ~check_authorized(u) THEN Refuse
    ELSE \E o \in resume_all(eng) : eng' = o.eng /\ NoBotChange

\* The handlers that read and reply: cmd_start (22-33), cmd_help (35-62),
\* cmd_globalstatus (670-711).
ReadOnly(u) == IF ~check_authorized(u) THEN Refuse ELSE ReplyOnly
CmdStart(u) == ReadOnly(u)
CmdHelp(u) == ReadOnly(u)
CmdGlobalStatus(u) == ReadOnly(u)

\* ------------------------------------------------------ the paged listings
\* The handlers of the three listings as functions of what they read: each
\* returns bot_data['states'] as it leaves it, what the user ends up seeing,
\* and the query.answer calls it makes on top of handle_callback's own.
Views == {"history_pages", "search_pages", "status_pages"}
HasCursor(st, view, u) == view \in DOMAIN st /\ u \in DOMAIN st[view]
Handled(st, shown, answers) == [states |-> st, shown |-> shown, answers |-> answers]

\* states[view][user_id] = cursor, reached only when states[view] exists.
SetCursor(st, view, u, cursor) == [st EXCEPT ![view] = Put(st[view], u, cursor)]

\* What get_history / search_history count and what the two engine listings
\* (tell_active, tell_waiting) return.
HistoryTotal(h) == Cardinality(DOMAIN h)
ListedTasks(e) == {g \in Gids : e[g].status \in LiveStatus}

\* The value part of "action:value": int(value) raises ValueError or gives n.
PageValues ==
    {[int |-> FALSE, n |-> 0]} \cup {[int |-> TRUE, n |-> n] : n \in -1..MaxPage}

\* command_handlers.cmd_history (lines 600-668) past check_authorized.
cmd_history(st, h, u, db_ok) ==
    IF ~db_ok THEN Handled(st, "db_error", 0)
    ELSE IF HistoryTotal(h) = 0 THEN Handled(st, "empty", 0)
    ELSE IF "history_pages" \notin DOMAIN st
    THEN \* line 646 raises KeyError, line 662 replies
         Handled(st, "system_error", 0)
    ELSE Handled(SetCursor(st, "history_pages", u,
                     [page |-> 1,
                      total |-> calculate_total_pages(HistoryTotal(h),
                                                      config_items_per_page)]),
                 "listing", 0)

\* command_handlers.cmd_searchhistory (lines 713-795) past check_authorized;
\* total is the number of rows the keyword matches.
cmd_searchhistory(st, u, form, db_ok, total) ==
    IF form = "missing" THEN Handled(st, "usage", 0)
    ELSE IF ~db_ok THEN Handled(st, "db_error", 0)
    ELSE IF total = 0 THEN Handled(st, "empty", 0)
    ELSE IF "search_pages" \notin DOMAIN st
    THEN Handled(st, "system_error", 0)
    ELSE Handled(SetCursor(st, "search_pages", u,
                     [page |-> 1,
                      total |-> calculate_total_pages(total, config_items_per_page),
                      keyword |-> "keyword"]),
                 "listing", 0)

\* command_handlers.cmd_status (lines 132-256) past check_authorized: with a
\* gid argument the detail of one task, without one the list (lines 204-249).
cmd_status(st, e, u, form, eng_ok) ==
    IF form # "missing" THEN Handled(st, "detail", 0)
    ELSE IF ~eng_ok THEN Handled(st, "system_error", 0)
    ELSE IF ListedTasks(e) = {} THEN Handled(st, "empty", 0)
    ELSE IF "status_pages" \notin DOMAIN st
    THEN Handled(st, "system_error", 0)
    ELSE Handled(SetCursor(st, "status_pages", u,
                     [page |-> 1,
                      total |-> calculate_total_pages(Cardinality(ListedTasks(e)),
                                                      config_items_per_page),
                      tasks |-> ListedTasks(e)]),
                 "listing", 0)

\* callback_handlers._handle_history_page_callback (lines 214-261).
handle_history_page_callback(st, h, u, value, db_ok) ==
    IF ~value.int THEN Handled(st, "alert_invalid_page", 1)
    ELSE IF ~db_ok THEN Handled(st, "alert_db_error", 1)
    ELSE IF "history_pages" \notin DOMAIN st
    THEN \* line 242 raises KeyError before the edit of line 248
         Handled(st, "alert_system_error", 1)
    ELSE Handled(SetCursor(st, "history_pages", u,
                     [page |-> value.n,
                      total |-> calculate_total_pages(HistoryTotal(h),
                                                      config_items_per_page)]),
                 "listing", 0)

\* callback_handlers._handle_search_page_callback (lines 263-319).
handle_search_page_callback(st, u, value, db_ok, total) ==
    IF ~value.int THEN Handled(st, "alert_invalid_page", 1)
    ELSE IF "search_pages" \notin DOMAIN st
    THEN \* line 272 raises KeyError
         Handled(st, "alert_system_error", 1)
    ELSE IF u \notin DOMAIN st["search_pages"]
    THEN Handled(st, "alert_expired", 1)
    ELSE IF ~db_ok THEN Handled(st, "alert_db_error", 1)
    ELSE Handled(SetCursor(st, "search_pages", u,
                     [page |-> value.n,
                      total |-> calculate_total_pages(total, config_items_per_page),
                      keyword |-> st["search_pages"][u].keyword]),
                 "listing", 0)

\* callback_handlers._handle_status_page_callback (lines 321-392).
handle_status_page_callback(st, e, u, value, eng_ok) ==
    IF ~value.int THEN Handled(st, "alert_invalid_page", 1)
    ELSE IF "status_pages" \notin DOMAIN st
    THEN \* line 330 raises KeyError
         Handled(st, "alert_system_error", 1)
    ELSE IF u \notin DOMAIN st["status_pages"] /\ ~eng_ok
    THEN Handled(st, "alert_engine_error", 1)
    ELSE LET all_tasks == IF u \notin DOMAIN st["status_pages"]
                          THEN ListedTasks(e)
                          ELSE st["status_pages"][u].tasks
             total_pages == calculate_total_pages(Cardinality(all_tasks),
                                                  config_items_per_page)
             page == IF value.n < 1 THEN 1
                     ELSE IF value.n > total_pages THEN total_pages ELSE value.n
         IN IF all_tasks = {} THEN Handled(st, "empty", 1)
            ELSE Handled(SetCursor(st, "status_pages", u,
                             [page |-> page, total |-> total_pages,
                              tasks |-> all_tasks]),
                         "listing", 0)

\* A handler of a listing as a step: of what the model keeps, it can only
\* change bot_data['states'].
PageFrame ==
    UNCHANGED <<botState, refused, tickVars, buttons, notifyVars, storeVars, lifeVars>>

CmdHistory(u) ==
    IF ~check_authorized(u) THEN Refuse
    ELSE \E db_ok \in BOOLEAN :
            /\ states' = cmd_history(states, history, u, db_ok).states
            /\ PageFrame

CmdSearchHistory(u) ==
    IF ~check_authorized(u) THEN Refuse
    ELSE \E form \in {"missing", "valid"}, db_ok \in BOOLEAN :
         \E total \in 0..HistoryTotal(history) :
            /\ states' = cmd_searchhistory(states, u, form, db_ok, total).states
            /\ PageFrame

CmdStatus(u) ==
    IF ~check_authorized(u) THEN Refuse
    ELSE \E form \in ArgForms, eng_ok \in BOOLEAN :
            /\ states' = cmd_status(states, eng, u, form, eng_ok).states
            /\ PageFrame

\* callback_handlers.handle_callback (lines 22-69) with _handle_pause_callback
\* (73-101): nothing is done when the first query.answer() raises.
CbPause(u) ==
    IF ~check_authorized(u) THEN Refuse
    ELSE \E answer_ok \in BOOLEAN :
        IF ~answer_ok THEN ReplyOnly
        ELSE \E g \in Gids : \E o \in pause_download(eng, g) :
                eng' = o.eng /\ NoBotChange

\* handle_callback with _handle_resume_callback (104-131).
CbResume(u) ==
    IF ~check_authorized(u) THEN Refuse
    ELSE \E answer_ok \in BOOLEAN :
        IF ~answer_ok THEN ReplyOnly
        ELSE \E g \in Gids : \E o \in resume_download(eng, g) :
                eng' = o.eng /\ NoBotChange

\* handle_callback with _handle_remove_callback (133-212).  key is the message
\* the button sits on; unregister_task(key) is reached only past the history
\* write and the edit of that message.
CbRemove(u) ==
    IF ~check_authorized(u) THEN Refuse
    ELSE \E answer_ok \in BOOLEAN :
        IF ~answer_ok THEN ReplyOnly
        ELSE \E key \in Keys, g \in Gids, edit_ok \in BOOLEAN :
             \E o \in remove_download(eng, g) :
                /\ eng' = o.eng
                /\ CASE o.res = "ok" ->
                          \E written \in BOOLEAN :
                              /\ RemovedRow(g, written)
                              /\ IF written /\ edit_ok
                                 THEN DoUnregister(key)
                                 ELSE UNCHANGED <<monitored_tasks, last_content, owed>>
                     [] o.res = "notfound" ->
                          /\ history' = history
                          /\ IF edit_ok
                             THEN DoUnregister(key)
                             ELSE UNCHANGED <<monitored_tasks, last_content, owed>>
                     [] OTHER ->
                          UNCHANGED <<history, monitored_tasks, last_content, owed>>
                /\ UNCHANGED <<conv, refused, OtherVars>>

\* handle_callback (lines 22-69) with the paging branches; nothing is done
\* when the first query.answer() raises.
CbHistoryPage(u) ==
    IF ~check_authorized(u) THEN Refuse
    ELSE \E answer_ok \in BOOLEAN :
        IF ~answer_ok THEN ReplyOnly
        ELSE \E value \in PageValues, db_ok \in BOOLEAN :
            /\ states' = handle_history_page_callback(states, history, u, value,
                                                      db_ok).states
            /\ PageFrame

CbSearchPage(u) ==
    IF ~check_authorized(u) THEN Refuse
    ELSE \E answer_ok \in BOOLEAN :
        IF ~answer_ok THEN ReplyOnly
        ELSE \E value \in PageValues, db_ok \in BOOLEAN :
             \E total \in 0..HistoryTotal(history) :
                /\ states' = handle_search_page_callback(states, u, value, db_ok,
                                                         total).states
                /\ PageFrame

CbStatusPage(u) ==
    IF ~check_authorized(u) THEN Refuse
    ELSE \E answer_ok \in BOOLEAN :
        IF ~answer_ok THEN ReplyOnly
        ELSE \E value \in PageValues, eng_ok \in BOOLEAN :
            /\ states' = handle_status_page_callback(states, eng, u, value,
                                                     eng_ok).states
            /\ PageFrame

\* handle_callback with "page_info" or an action it does not know.
CbPageInfo(u) == ReadOnly(u)

\* The callback data the keyboards of the bot carry, by their action part.
CallbackData ==
    {"pause", "resume", "remove", "history_page", "search_page", "status_page",
     "page_info", "clear_history_confirm", "clear_history_cancel"}

\* The handler a callback query of user u in chat c is given to (bot_app.py
\* lines 124-132, conversation_handlers.py lines 109-119): handle_callback takes
\* what does not start with "clear_history_"; the conversation takes its two
\* buttons while <<c, u>> is in CONFIRM_CLEAR; nothing takes the rest.
dispatch_NoConversation(cv, c, u, data) ==
    IF data \notin {"clear_history_confirm", "clear_history_cancel"} THEN "handle_callback"
    ELSE IF data = "clear_history_confirm" THEN "cmd_clearhistory_confirm"
    ELSE "cmd_clearhistory_cancel"
dispatch(cv, c, u, data) ==
    IF data \notin {"clear_history_confirm", "clear_history_cancel"}
    THEN "handle_callback"
    ELSE IF <<c, u>> \notin cv THEN "none"
    ELSE IF data = "clear_history_confirm" THEN "cmd_clearhistory_confirm"
    ELSE "cmd_clearhistory_cancel"

\* The query.answer calls a handler makes before anything else can fail:
\* check_authorized answers its refusal (auth.py line 30), handle_callback
\* answers at line 36 and once more at line 66 when that raised, both
\* conversation callbacks answer first (lines 48 and 89).
answer_calls(handler, authorized, answer_ok) ==
    CASE handler = "handle_callback" ->
            IF ~authorized THEN 1 ELSE IF answer_ok THEN 1 ELSE 2
      [] handler = "cmd_clearhistory_confirm" -> IF authorized THEN 1 ELSE 2
      [] handler = "cmd_clearhistory_cancel" -> 1
      [] OTHER -> 0

\* A callback query no handler takes: the dispatcher drops it.
CbUnhandled(c, u, data) ==
    /\ dispatch(conv, c, u, data) = "none"
    /\ UNCHANGED vars

\* conversation_handlers.cmd_clearhistory_start (lines 24-43), the entry point:
\* it is only tried when the (chat, user) pair has no conversation.
CmdClearHistory(c, u) ==
    /\ <<c, u>> \notin conv
    /\ IF ~check_authorized(u) THEN Refuse
       ELSE /\ conv' = conv \cup {<<c, u>>}
            /\ UNCHANGED <<eng, history, monitored_tasks, last_content, owed, refused,
                           OtherVars>>

\* ConversationHandler: the state a handler returns becomes the state of the
\* (chat, user) conversation; a handler that raises leaves it where it was.
update_state(cv, c, u, returned) ==
    IF returned = "END" THEN cv \ {<<c, u>>} ELSE cv

\* What the confirm handler gives the ConversationHandler, by the way its
\* calls went; what the two cancel handlers give it, by whether their Telegram
\* calls (query.answer, edit_message_text, reply_text) returned.
cmd_clearhistory_confirm(case) ==
    IF case \in {"cleared", "db_error"} THEN "END" ELSE "raised"
cmd_clearhistory_cancel(tg_ok) == IF tg_ok THEN "END" ELSE "raised"

ConfirmCases == {"cleared", "db_error", "raised_before", "raised_after"}

\* conversation_handlers.cmd_clearhistory_confirm (lines 45-84).  An exception
\* that leaves the handler keeps the conversation in CONFIRM_CLEAR.
CbClearConfirm(c, u, case) ==
    /\ dispatch(conv, c, u, "clear_history_confirm") = "cmd_clearhistory_confirm"
    /\ IF ~check_authorized(u)
       THEN /\ conv' = conv \ {<<c, u>>}
            /\ refused' = TRUE
            /\ UNCHANGED history
       ELSE /\ history' = IF case \in {"cleared", "raised_after"}
                          THEN clear_history(history) ELSE history
            /\ conv' = update_state(conv, c, u, cmd_clearhistory_confirm(case))
            /\ UNCHANGED refused
    /\ UNCHANGED <<eng, monitored_tasks, last_content, owed, OtherVars>>

\* conversation_handlers.cmd_clearhistory_cancel (lines 86-96).
CbClearCancel(c, u, tg_ok) ==
    /\ dispatch(conv, c, u, "clear_history_cancel") = "cmd_clearhistory_cancel"
    /\ conv' = update_state(conv, c, u, cmd_clearhistory_cancel(tg_ok))
    /\ UNCHANGED <<eng, history, monitored_tasks, last_content, owed, refused, OtherVars>>

\* conversation_handlers.cmd_clearhistory_cancel_command (lines 98-105).
CmdCancel(c, u, tg_ok) ==
    /\ <<c, u>> \in conv
    /\ conv' = update_state(conv, c, u, cmd_clearhistory_cancel(tg_ok))
    /\ UNCHANGED <<eng, history, monitored_tasks, last_content, owed, refused, OtherVars>>

\* ConversationHandler(conversation_timeout=60) (lines 109-119).
ConvTimeout(c, u) ==
    /\ <<c, u>> \in conv
    /\ conv' = conv \ {<<c, u>>}
    /\ UNCHANGED <<eng, history, monitored_tasks, last_content, owed, refused, OtherVars>>

\* Every update user u may send, handled by the handler bot_app.py registers
\* for it (lines 105-132).
Update(u) ==
    \/ CmdStart(u) \/ CmdHelp(u) \/ CmdStatus(u) \/ CmdHistory(u)
    \/ CmdGlobalStatus(u) \/ CmdSearchHistory(u)
    \/ CmdAdd(u) \/ CmdPause(u) \/ CmdUnpause(u) \/ CmdRemove(u)
    \/ CmdPauseAll(u) \/ CmdUnpauseAll(u)
    \/ CbPause(u) \/ CbResume(u) \/ CbRemove(u)
    \/ CbHistoryPage(u) \/ CbSearchPage(u) \/ CbStatusPage(u) \/ CbPageInfo(u)
    \/ \E c \in Chats :
          \/ CmdClearHistory(c, u)
          \/ \E case \in ConfirmCases : CbClearConfirm(c, u, case)
          \/ \E tg_ok \in BOOLEAN : CbClearCancel(c, u, tg_ok)
          \/ \E tg_ok \in BOOLEAN : CmdCancel(c, u, tg_ok)
          \/ \E data \in CallbackData : CbUnhandled(c, u, data)

InitBot ==
    /\ eng \in [Gids -> {Absent, Download("active", 0)}]
    /\ history = <<>>
    /\ InitMonitor
    /\ InitNotifyIdle
    /\ InitBotIdle
    /\ InitStoreIdle
    /\ InitLifeIdle

NextBot ==
    \/ \E u \in Users : Update(u)
    \/ \E c \in Chats, u \in Users : ConvTimeout(c, u)
    \/ \E g \in Gids : EngineStep(g)
    \/ \E k \in Keys, g \in Gids : Register(k, g)
    \/ \E k \in Keys : Unregister(k)

SpecBot == InitBot /\ [][NextBot]_vars

\* ------------------- the monitor loop against the handlers of one message
\* One monitored message, registered with any gid of the engine through
\* register_task and unregistered by the remove button on it
\* (_handle_remove_callback), while the loop runs its ticks.
RaceKeys == {k \in Keys : k[2] = 1}

InitRace == InitMon

NextRace ==
    \/ \E k \in RaceKeys, g \in Gids : Register(k, g)
    \/ \E u \in authorized_users : CbRemove(u)
    \/ MonTick
    \/ MonFetch
    \/ \E o \in EditOutcomes : MonFinalDone(o)
    \/ \E o \in EditOutcomes : MonLiveDone(o)
    \/ \E o \in EditOutcomes : MonRetryDone(o)

SpecRace == InitRace /\ [][NextRace]_vars

\* -------------------------------------------- the download_history table
\* Python values passed as files / extra, and the TEXT column that holds them.
PyNone == <<"None">>
SqlNull == <<"NULL">>

\* The truth value Python gives None, [] and {} in `x if x else None`.
Falsy(v) == v \in {PyNone, <<"list">>, <<"dict">>}

\* add_history, lines 169-170 and 184-185: `json.dumps(v) if v else None`.
dumps_or_null(v) == IF Falsy(v) THEN SqlNull ELSE <<"json">> \o v

\* get_history_by_gid, lines 320-323: `json.loads(c)` when the column is true,
\* otherwise the column's NULL comes back as None.
loads_or_none(c) == IF c = SqlNull THEN PyNone ELSE Tail(c)

\* The arguments of add_history calls.  The table treats every status alike
\* and the two blob columns alike, so the calls pass one terminal status and
\* "removed", and files and extra in step: both None, both empty, both filled.
StoreStatuses == {"completed", "removed"}
BlobArgs == {<<PyNone, PyNone>>, <<(<<"list">>), (<<"dict">>)>>,
             <<(<<"list", "f">>), (<<"dict", "k">>)>>}
AddArgs ==
    {[gid |-> g, status |-> st, timestamp |-> ts, notified |-> n,
      files |-> b[1], extra |-> b[2]] :
        g \in Gids, st \in StoreStatuses, ts \in Timestamps, n \in BOOLEAN,
        b \in BlobArgs}

\* The column values add_history binds to its UPDATE and INSERT (lines 182-199).
TableRow(a) ==
    [gid |-> a.gid, status |-> a.status, timestamp |-> a.timestamp,
     notified |-> IF a.notified THEN 1 ELSE 0,
     files |-> dumps_or_null(a.files), extra |-> dumps_or_null(a.extra)]

HasGid(d, gid) == \E id \in DOMAIN d : d[id].gid = gid
IdOf(d, gid) == CHOOSE id \in DOMAIN d : d[id].gid = gid

UpsertRows_Replace(d, q, row) ==
    [db |-> Put([id \in {i \in DOMAIN d : d[i].gid # row.gid} |-> d[id]], q + 1, row),
     seq |-> q + 1]
\* add_history, lines 176-199: UPDATE ... WHERE gid = ?, and INSERT with the
\* next AUTOINCREMENT id when no row was updated.
UpsertRows(d, q, row) ==
    IF HasGid(d, row.gid)
    THEN [db |-> [id \in DOMAIN d |-> IF d[id].gid = row.gid THEN row ELSE d[id]],
          seq |-> q]
    ELSE [db |-> Put(d, q + 1, row), seq |-> q + 1]

TieOrders == {"id_asc", "id_desc"}
TieBefore(ties, a, b) == IF ties = "id_asc" THEN a < b ELSE a > b

OldestFirst_ById(d, ties, a, b) == a < b
\* ORDER BY timestamp ASC (line 539): row a comes before row b.
OldestFirst(d, ties, a, b) ==
    \/ d[a].timestamp < d[b].timestamp
    \/ d[a].timestamp = d[b].timestamp /\ a # b /\ TieBefore(ties, a, b)

\* ORDER BY timestamp DESC (line 255): row a comes before row b.
NewestFirst(d, ties, a, b) ==
    \/ d[a].timestamp > d[b].timestamp
    \/ d[a].timestamp = d[b].timestamp /\ a # b /\ TieBefore(ties, a, b)

\* The ids of the table as the SELECT of _trim_history yields them.
OldestFirstIds(d, ties) ==
    CHOOSE f \in [1..Cardinality(DOMAIN d) -> DOMAIN d] :
        \A i, j \in DOMAIN f : i < j => OldestFirst(d, ties, f[i], f[j])

\* The ids of the table as the SELECT of get_history yields them.
NewestFirstIds(d, ties) ==
    CHOOSE f \in [1..Cardinality(DOMAIN d) -> DOMAIN d] :
        \A i, j \in DOMAIN f : i < j => NewestFirst(d, ties, f[i], f[j])

\* HistoryManager._trim_history (lines 508-553).
TrimHistory(d, m, ties) ==
    LET current_count == Cardinality(DOMAIN d) IN
    IF m <= 0 \/ current_count <= m
    THEN [db |-> d, deleted |-> 0]
    ELSE LET to_delete == current_count - m
             order == OldestFirstIds(d, ties)
             gone == {order[i] : i \in 1..to_delete}
         IN [db |-> [id \in DOMAIN d \ gone |-> d[id]], deleted |-> to_delete]

\* HistoryManager.add_history (lines 130-213) on the table.
AddHistory(d, q, m, ties, a) ==
    LET up == UpsertRows(d, q, TableRow(a))
        tr == TrimHistory(up.db, m, ties)
    IN [db |-> tr.db, seq |-> up.seq, deleted |-> tr.deleted]

\* dict(row) with the conversions of lines 317-330.
Item(d, id) ==
    [id |-> id, gid |-> d[id].gid, status |-> d[id].status,
     timestamp |-> d[id].timestamp, notified |-> d[id].notified # 0,
     files |-> loads_or_none(d[id].files), extra |-> loads_or_none(d[id].extra)]

\* HistoryManager.get_history_by_gid (lines 293-336); callers test found.
GetHistoryByGid(d, gid) ==
    IF HasGid(d, gid)
    THEN [found |-> TRUE, item |-> Item(d, IdOf(d, gid))]
    ELSE [found |-> FALSE]

\* HistoryManager.get_history (lines 215-291) without a status filter: the ids
\* of the page's rows in the order returned, and the COUNT(*).
GetHistory(d, ties, page, page_size) ==
    LET p == IF page < 1 THEN 1 ELSE page
        offset == (p - 1) * page_size
        total == Cardinality(DOMAIN d)
        order == NewestFirstIds(d, ties)
        left == IF total > offset THEN total - offset ELSE 0
        n == IF left < page_size THEN left ELSE page_size
    IN [records |-> [i \in 1..n |-> order[offset + i]], total |-> total]

\* HistoryManager.mark_as_notified (lines 338-369) on the table.
MarkAsNotified(d, gid) ==
    [db |-> [id \in DOMAIN d |->
               IF d[id].gid = gid THEN [d[id] EXCEPT !.notified = 1] ELSE d[id]],
     success |-> HasGid(d, gid)]

\* HistoryManager.clear_history (lines 483-506) on the table.
ClearHistory(d) == [db |-> <<>>, count |-> Cardinality(DOMAIN d)]

StoreFrame == UNCHANGED <<eng, history, monVars, notifyVars, botVars, lifeVars,
                          self_max_history, tie_order, calls>>

\* A call of add_history(gid, name, status, size, ..., files, timestamp,
\* notified, extra) that returns.
StoreAdd(a) ==
    /\ HasGid(db, a.gid) \/ seq < MaxId
    /\ LET r == AddHistory(db, seq, self_max_history, tie_order, a) IN
          /\ db' = r.db
          /\ seq' = r.seq
          /\ reply' = [op |-> "add", gid |-> a.gid, existed |-> HasGid(db, a.gid),
                       deleted |-> r.deleted]
    /\ StoreFrame

StoreMark(gid) ==
    /\ LET r == MarkAsNotified(db, gid) IN
          /\ db' = r.db
          /\ reply' = [op |-> "mark", gid |-> gid, success |-> r.success]
    /\ UNCHANGED seq
    /\ StoreFrame

StoreClear ==
    /\ LET r == ClearHistory(db) IN
          /\ db' = r.db
          /\ reply' = [op |-> "clear", count |-> r.count]
    /\ UNCHANGED seq
    /\ StoreFrame

\* get_history(page, page_size) as the history handlers call it, followed by
\* their calculate_total_pages(total, items_per_page).
StoreList(page, page_size) ==
    /\ LET r == GetHistory(db, tie_order, page, page_size) IN
          reply' = [op |-> "list", page |-> page, page_size |-> page_size,
                    records |-> r.records, total |-> r.total,
                    total_pages |-> calculate_total_pages(r.total, page_size)]
    /\ UNCHANGED <<db, seq>>
    /\ StoreFrame

StoreGetByGid(gid) ==
    /\ reply' = [op |-> "get_by_gid", gid |-> gid, result |-> GetHistoryByGid(db, gid)]
    /\ UNCHANGED <<db, seq>>
    /\ StoreFrame

\* A new database file; the configuration and the SQL engine are any of the
\* ones the bounds allow.
InitStore ==
    /\ eng = [g \in Gids |-> Absent]
    /\ history = <<>>
    /\ InitMonitor
    /\ InitNotifyIdle
    /\ InitBotIdle
    /\ InitLifeIdle
    /\ db = <<>>
    /\ seq = 0
    /\ self_max_history \in 0..MaxKeep
    /\ tie_order \in TieOrders
    /\ reply = NoReply
    /\ calls = NoCalls

NextStore ==
    \/ \E a \in AddArgs : StoreAdd(a)
    \/ \E g \in Gids : StoreMark(g)
    \/ StoreClear
    \/ \E page \in 0..MaxPage, page_size \in 1..MaxPageSize : StoreList(page, page_size)
    \/ \E g \in Gids : StoreGetByGid(g)

SpecStore == InitStore /\ [][NextStore]_vars

\* ------------------------------- add_history cut at its suspension points
\* The table is the one connection's view of it (_get_connection, lines
\* 51-73, hands every caller the same aiosqlite connection): a statement one
\* coroutine has executed is seen by the statements of every other, committed
\* or not, and a commit commits whatever the connection holds.
\* The interleaving does not depend on the columns written: the calls differ
\* in gid and status.
UpsertArgs ==
    {a \in AddArgs : /\ ~a.notified /\ a.files = PyNone /\ a.extra = PyNone
                     /\ a.timestamp = MaxTs}
InFlight(c) == calls[c].pc \in {"update", "insert", "commit", "trim"}
Finished(c) == calls[c].pc \in {"returned", "raised"}

UpsertFrame ==
    UNCHANGED <<eng, history, monVars, botVars, lifeVars, self_max_history,
                tie_order, reply, notification_enabled, npc, unnotified_tasks,
                nidx, send_ok, sent, flips, mark_failed, resend_due, crashes>>

\* A statement of the connection fails (disk, lock, closed connection).
StorageFault ==
    /\ db_faults < MaxDbFaults
    /\ db_faults' = db_faults + 1

\* except Exception (lines 211-213): DatabaseError to the caller.
Raise(c) == calls' = [calls EXCEPT ![c].pc = "raised"]

\* add_history is called (lines 130-167) and suspends in the UPDATE.  before
\* and alone remember the table at the call and whether no other call was in
\* flight from the call on.
AddCall(c, a) ==
    /\ calls[c] = IdleCall
    /\ seq + Cardinality({x \in Callers : InFlight(x)}) < MaxId
    /\ calls' = [x \in Callers |->
                   IF x = c
                   THEN [pc |-> "update", a |-> a, before |-> db,
                         alone |-> \A y \in Callers \ {c} : ~InFlight(y)]
                   ELSE IF InFlight(x) THEN [calls[x] EXCEPT !.alone = FALSE]
                   ELSE calls[x]]
    /\ UNCHANGED <<db, seq, db_faults>>
    /\ UpsertFrame

\* Lines 176-187: the UPDATE returns; rowcount is 1 when a row has the gid.
AddUpdate(c, ok) ==
    /\ calls[c].pc = "update"
    /\ IF ~ok
       THEN StorageFault /\ Raise(c) /\ UNCHANGED <<db, seq>>
       ELSE /\ IF HasGid(db, calls[c].a.gid)
               THEN /\ db' = UpsertRows(db, seq, TableRow(calls[c].a)).db
                    /\ calls' = [calls EXCEPT ![c].pc = "commit"]
               ELSE /\ calls' = [calls EXCEPT ![c].pc = "insert"]
                    /\ UNCHANGED db
            /\ UNCHANGED <<seq, db_faults>>
    /\ UpsertFrame

\* Lines 189-199: the INSERT returns.  gid is UNIQUE (line 95): the INSERT of
\* a gid that a row holds by now raises IntegrityError.
AddInsert(c, ok) ==
    /\ calls[c].pc = "insert"
    /\ IF ~ok
       THEN StorageFault /\ Raise(c) /\ UNCHANGED <<db, seq>>
       ELSE IF HasGid(db, calls[c].a.gid)
       THEN Raise(c) /\ UNCHANGED <<db, seq, db_faults>>
       ELSE /\ db' = UpsertRows(db, seq, TableRow(calls[c].a)).db
            /\ seq' = UpsertRows(db, seq, TableRow(calls[c].a)).seq
            /\ calls' = [calls EXCEPT ![c].pc = "commit"]
            /\ UNCHANGED db_faults
    /\ UpsertFrame

\* Line 201: the commit returns.
AddCommit(c, ok) ==
    /\ calls[c].pc = "commit"
    /\ IF ~ok
       THEN StorageFault /\ Raise(c)
       ELSE /\ calls' = [calls EXCEPT ![c].pc = "trim"]
            /\ UNCHANGED db_faults
    /\ UNCHANGED <<db, seq>>
    /\ UpsertFrame

\* Lines 206-209: _trim_history returns or raises DatabaseError, which
\* add_history raises on; with max_history <= 0 it has no statement to fail.
AddTrim(c, ok) ==
    /\ calls[c].pc = "trim"
    /\ IF ~ok
       THEN /\ self_max_history > 0
            /\ StorageFault /\ Raise(c) /\ UNCHANGED db
       ELSE /\ db' = TrimHistory(db, self_max_history, tie_order).db
            /\ calls' = [calls EXCEPT ![c].pc = "returned"]
            /\ UNCHANGED db_faults
    /\ UNCHANGED seq
    /\ UpsertFrame

\* The caller has the record id or the DatabaseError.
AddReturn(c) ==
    /\ Finished(c)
    /\ calls' = [calls EXCEPT ![c] = IdleCall]
    /\ UNCHANGED <<db, seq, db_faults>>
    /\ UpsertFrame

InitUpsert == InitStore

NextUpsert ==
    \/ \E c \in Callers, a \in UpsertArgs : AddCall(c, a)
    \/ \E c \in Callers, ok \in BOOLEAN : AddUpdate(c, ok)
    \/ \E c \in Callers, ok \in BOOLEAN : AddInsert(c, ok)
    \/ \E c \in Callers, ok \in BOOLEAN : AddCommit(c, ok)
    \/ \E c \in Callers, ok \in BOOLEAN : AddTrim(c, ok)
    \/ \E c \in Callers : AddReturn(c)

SpecUpsert == InitUpsert /\ [][NextUpsert]_vars

\* ------------------------------------------- TaskMonitor.start and stop
Tasks == 1..MaxTasks
\* A _monitor_loop task that can still run a tick: created by start() and not
\* yet run, or suspended in one of the loop's awaits, with no cancel pending.
LoopAwaits == {"sleep", "gather", "edit"}
Live(t) == loops[t] \in {"created"} \cup LoopAwaits

LifeFrame == UNCHANGED <<eng, history, monVars, notifyVars, botVars, storeVars>>

\* TaskMonitor.start (lines 47-59); it has no await.
Start ==
    /\ IF running
       THEN UNCHANGED lifeVars
       ELSE /\ \E t \in Tasks : loops[t] = "unborn"
            /\ LET t == CHOOSE x \in Tasks :
                           loops[x] = "unborn" /\ \A y \in Tasks : loops[y] = "unborn" => x <= y
               IN /\ loops' = [loops EXCEPT ![t] = "created"]
                  /\ monitor_task' = t
            /\ running' = TRUE
            /\ UNCHANGED stop_waits
    /\ LifeFrame

\* TaskMonitor.stop up to its await (lines 63-68): the flag, the cancel, and
\* the suspension on the task; without a task to cancel stop runs to its end.
StopBegin ==
    /\ running' = FALSE
    /\ IF monitor_task # NoTask /\ loops[monitor_task] # "done"
       THEN /\ loops' = [loops EXCEPT ![monitor_task] = "cancelling"]
            /\ stop_waits' = stop_waits \cup {monitor_task}
            /\ UNCHANGED monitor_task
       ELSE /\ monitor_task' = NoTask
            /\ UNCHANGED <<loops, stop_waits>>
    /\ LifeFrame

\* TaskMonitor.stop after its await (lines 69-75): the awaited task is done.
StopEnd(t) ==
    /\ t \in stop_waits
    /\ loops[t] = "done"
    /\ stop_waits' = stop_waits \ {t}
    /\ monitor_task' = NoTask
    /\ UNCHANGED <<running, loops>>
    /\ LifeFrame

\* _monitor_loop (lines 113-208) between two suspensions: a pending cancel is
\* raised at the await and ends the task; `while self._running` is tested
\* when the task first runs and after the sleep that ends a pass.
LoopStep(t, next) ==
    /\ loops[t] \in {"created", "cancelling"} \cup LoopAwaits
    /\ loops' = [loops EXCEPT ![t] =
                    IF loops[t] = "cancelling" THEN "done"
                    ELSE IF loops[t] \in {"created", "sleep"}
                    THEN (IF ~running THEN "done"
                          ELSE IF next = "edit" THEN "gather" ELSE next)
                    ELSE (IF next = "gather" THEN "edit" ELSE next)]
    /\ UNCHANGED <<running, monitor_task, stop_waits>>
    /\ LifeFrame

InitLife ==
    /\ eng = [g \in Gids |-> Absent]
    /\ history = <<>>
    /\ InitMonitor
    /\ InitNotifyIdle
    /\ InitBotIdle
    /\ InitStoreIdle
    /\ InitLifeIdle

NextLife ==
    \/ Start
    \/ StopBegin
    \/ \E t \in Tasks : StopEnd(t)
    \/ \E t \in Tasks, next \in LoopAwaits : LoopStep(t, next)

SpecLife == InitLife /\ [][NextLife]_vars

\* ----------------------------------------------------- claims on SpecLife
\* C20: whatever start() and stop() calls were made, at most one monitor
\* loop task can still run a tick.
C20_AtMostOneLoop == Cardinality({t \in Tasks : Live(t)}) <= 1

\* --------------------------------------- the two loops, fairly scheduled
\* The monitor loop and the reconciler share no state: the loop never writes
\* the history and the reconciler never reads the registry.  Each is run from
\* what the other leaves alone: a registry that is handed over at the start
\* with an empty history, or a history with an empty registry.
LoopRegistries ==
    {<<>>}
    \cup {<<[key |-> k, gid |-> g]>> : k \in Keys, g \in MonGids}
    \cup {<<[key |-> p[1], gid |-> g], [key |-> p[2], gid |-> g]>> :
            p \in {q \in Keys \X Keys : q[1] # q[2]}, g \in MonGids}

InitLoops ==
    /\ eng = [g \in Gids |-> Absent]
    /\ monitored_tasks \in LoopRegistries
    /\ history \in Histories
    /\ monitored_tasks = <<>> \/ history = <<>>
    /\ last_content = <<>>
    /\ mpc = "sleep"
    /\ current_monitors = <<>>
    /\ results = <<>>
    /\ idx = 1
    /\ cur_text = NoText
    /\ issued = {}
    /\ owed = [k \in Keys |-> 0]
    /\ buttons = {}
    /\ InitNotifyIdle
    /\ InitBotIdle
    /\ InitStoreIdle
    /\ InitLifeIdle

NextLoops ==
    \/ MonTick
    \/ MonFetch
    \/ \E o \in EditOutcomes : MonFinalDone(o)
    \/ \E o \in EditOutcomes : MonLiveDone(o)
    \/ \E o \in EditOutcomes : MonRetryDone(o)
    \/ ReconcilerStep

\* Every await of the loop returns or raises (sleep, gather, the Bot API
\* calls), the event loop resumes the task, and the scheduler keeps firing
\* check_and_notify (main.py, the interval job), whose awaits return as well.
SpecLoops ==
    /\ InitLoops
    /\ [][NextLoops]_vars
    /\ WF_vars(MonTick)
    /\ WF_vars(MonFetch)
    /\ WF_vars(\E o \in EditOutcomes : MonFinalDone(o))
    /\ WF_vars(\E o \in EditOutcomes : MonLiveDone(o))
    /\ WF_vars(\E o \in EditOutcomes : MonRetryDone(o))
    /\ WF_vars(ReconcilerStep)

\* ---------------------------------------------------- claims on SpecUpsert
\* C36: when two add_history calls for one gid have run concurrently on a
\* table that held no row when each was called, and no statement failed, both
\* have returned and the table holds one row of the gid, with the columns of
\* one of the two calls.
C36_ConcurrentUpsertsLinearizable ==
    \A c1, c2 \in Callers :
        (/\ c1 # c2
         /\ Finished(c1) /\ Finished(c2)
         /\ ~calls[c1].alone /\ ~calls[c2].alone
         /\ calls[c1].a.gid = calls[c2].a.gid
         /\ calls[c1].before = <<>> /\ calls[c2].before = <<>>
         /\ db_faults = 0)
        => /\ calls[c1].pc = "returned" /\ calls[c2].pc = "returned"
           /\ Cardinality({id \in DOMAIN db : db[id].gid = calls[c1].a.gid}) = 1
           /\ \E id \in DOMAIN db : db[id] \in {TableRow(calls[c1].a), TableRow(calls[c2].a)}

\* C40: when an add_history call that ran with no other call in flight has
\* raised DatabaseError, the table is the one it was called on.
C40_FailedUpsertChangesNothing ==
    \A c \in Callers :
        (calls[c].pc = "raised" /\ calls[c].alone) => db = calls[c].before

\* ----------------------------------------------------- claims on SpecLoops
\* C24: whatever the fetches and the edits of a tick raise, the monitor loop
\* is again and again back at the top of its while loop and, with entries in
\* the registry, starts the next tick; every tick of the reconciler comes
\* back to the scheduler.
C24_LoopsKeepTicking ==
    /\ []<>(mpc = "sleep")
    /\ []((mpc = "sleep" /\ monitored_tasks # <<>>) => <>(mpc = "fetch"))
    /\ []<>(npc = "idle")

\* A tick was left by an exception before it came to an entry with a
\* terminal outcome, and the loop has started the next tick.
C24_Witness == mpc = "fetch" /\ \E k \in Keys : owed[k] >= 1

\* --------------------------------------------------- claims on SpecNotify
Pending(g) ==
    /\ notification_enabled
    /\ g \in DOMAIN history
    /\ history[g].status \in NotifiableStatus
    /\ ~history[g].notified
Notified(g) == g \in DOMAIN history /\ history[g].notified

\* C5: with notifications enabled, every row with status completed or error
\* and notified = false eventually has had mark_as_notified applied by the
\* reconciler and has notified = true.
C5_AtLeastOnce == \A g \in Gids : Pending(g) ~> (Notified(g) /\ flips[g] >= 1)

\* The reconciler has sent a row to every recipient and flipped its flag.
C5_Witness ==
    \E g \in Gids :
        /\ notification_enabled
        /\ Notified(g)
        /\ flips[g] >= 1
        /\ \A u \in notify_users : sent[<<g, u>>] >= 1

\* C6: mark_as_notified is called for a record only after the send of that
\* record succeeded for all its recipients.
C6_MarkOnlyAfterSendSuccess ==
    npc = "mark" => send_ok = SendTargets(unnotified_tasks[nidx].status)

C8_CrashResend ==
    \A p \in Gids \X notify_users :
        (p \in resend_due) ~> (Notified(p[1]) /\ sent[p] >= 2)

\* After such a crash the record was sent again and marked.
C8_Witness ==
    \E p \in resend_due : Notified(p[1]) /\ sent[p] >= 2 /\ crashes >= 1

\* C12: a row whose status is removed is not among the rows
\* get_unnotified_completed returns, is in no tick's list of rows to notify,
\* and no send_message call is ever made for it.
C12_NoNotificationForRemoved ==
    \A g \in DOMAIN history :
        history[g].status = "removed" =>
            /\ g \notin get_unnotified_completed(history)
            /\ \A i \in 1..Len(unnotified_tasks) : unnotified_tasks[i].gid # g
            /\ \A u \in notify_users : sent[<<g, u>>] = 0

\* A tick has notified and marked a row of a store that also holds a removed
\* row with notified = false, and has passed that row over.
C12_Witness ==
    /\ notification_enabled
    /\ npc = "idle"
    /\ \E g, g2 \in DOMAIN history :
          /\ history[g].status = "removed"
          /\ ~history[g].notified
          /\ \A u \in notify_users : sent[<<g, u>>] = 0
          /\ Notified(g2)
          /\ flips[g2] >= 1

\* ------------------------------------------------------ claims on SpecBot
\* C3: after /add by an authorized user with a valid URI for which the engine
\* returned gid g, the registry maps a message of the chat to g.
C3_AddRegisters ==
    [][\A g \in Gids :
          ((\E u \in authorized_users : CmdAdd(u)) /\ eng[g] = Absent /\ eng'[g] # Absent)
          => \E k \in Keys : GidOf(monitored_tasks', k) = g]_vars

\* C9: a command or callback (the clear-history confirmation included) from a
\* user outside authorized_users changes neither the engine nor the history.
C9_AuthorizationGate ==
    [][(\E u \in Users \ authorized_users : Update(u)) => UNCHANGED <<eng, history>>]_vars

\* Updates of a user outside authorized_users were refused while the engine
\* held a download to act on and the history held rows to clear.
C9_Witness ==
    /\ refused
    /\ \E g \in Gids : eng[g].status \in LiveStatus
    /\ history # <<>>

\* C10: after a remove of gid g through /remove or the remove button went
\* through, no (chat_id, message_id) of the registry maps to g.
C10_RemoveUnregistersAll ==
    [][\A g \in Gids :
          (/\ \E u \in authorized_users : CmdRemove(u) \/ CbRemove(u)
           /\ eng[g].status \in LiveStatus
           /\ eng'[g].status \notin LiveStatus)
          => \A k \in Keys : GidOf(monitored_tasks', k) # g]_vars

\* The store after a remove handler whose remove_download returned true and
\* whose add_history, where it was called, returned: t is the outcome of the
\* handler's preliminary get_download.
RemoveDoneFor(g) ==
    /\ \E u \in authorized_users : CmdRemove(u) \/ CbRemove(u)
    /\ eng[g].status \in LiveStatus
    /\ eng'[g] = Absent
    /\ \E t \in get_download(eng[g]) :
          IF t.kind = "snap"
          THEN \E ts \in Timestamps :
                  history' \in add_history(history, g, "removed", ts, FALSE)
          ELSE history' = history

\* C11: when /remove or the remove button removed gid g from the engine, the
\* history afterwards holds a row of g with status removed, whatever the
\* preliminary get_download of the handler returned.
C11_RemoveWritesHistory ==
    [][\A g \in Gids :
          RemoveDoneFor(g)
          => (g \in DOMAIN history' /\ history'[g].status = "removed")]_vars

\* C21: a paging callback of an authorized user who has no cursor for the
\* view, carrying page value n >= 1, with the source of truth readable and not
\* empty, ends with the listing rendered and a cursor for (view, user) whose
\* page is the requested one (for the status view, the requested page brought
\* into 1..total_pages).
C21_PagingWithoutCursor ==
    \A u \in authorized_users :
    \A value \in {v \in PageValues : v.int /\ v.n >= 1} :
        /\ (history # <<>> /\ ~HasCursor(states, "history_pages", u))
            => LET r == handle_history_page_callback(states, history, u, value, TRUE)
               IN /\ r.shown = "listing"
                  /\ HasCursor(r.states, "history_pages", u)
                  /\ r.states["history_pages"][u].page = value.n
        /\ (history # <<>> /\ ~HasCursor(states, "search_pages", u))
            => \A total \in 1..HistoryTotal(history) :
               LET r == handle_search_page_callback(states, u, value, TRUE, total)
               IN /\ r.shown = "listing"
                  /\ HasCursor(r.states, "search_pages", u)
                  /\ r.states["search_pages"][u].page = value.n
        /\ (ListedTasks(eng) # {} /\ ~HasCursor(states, "status_pages", u))
            => LET r == handle_status_page_callback(states, eng, u, value, TRUE)
               IN /\ r.shown = "listing"
                  /\ HasCursor(r.states, "status_pages", u)
                  /\ r.states["status_pages"][u].page
                        = IF value.n > r.states["status_pages"][u].total
                          THEN r.states["status_pages"][u].total ELSE value.n

\* The least number of pages of per_page items that hold total items.
CeilPages(total, per_page) ==
    CHOOSE n \in 0..total : n * per_page >= total /\ (n - 1) * per_page < total

\* C22: an authorized /history, /searchhistory keyword or /status without
\* argument that finds a listing that is not empty shows the listing and
\* leaves a cursor for (view, user) with page = 1 and
\* total_pages = ceil(total / items_per_page).
C22_ListingCreatesCursor ==
    \A u \in authorized_users :
        /\ history # <<>>
            => LET r == cmd_history(states, history, u, TRUE)
               IN /\ r.shown = "listing"
                  /\ HasCursor(r.states, "history_pages", u)
                  /\ r.states["history_pages"][u].page = 1
                  /\ r.states["history_pages"][u].total
                        = CeilPages(HistoryTotal(history), config_items_per_page)
        /\ \A total \in 1..HistoryTotal(history) :
               LET r == cmd_searchhistory(states, u, "valid", TRUE, total)
               IN /\ r.shown = "listing"
                  /\ HasCursor(r.states, "search_pages", u)
                  /\ r.states["search_pages"][u].page = 1
                  /\ r.states["search_pages"][u].total
                        = CeilPages(total, config_items_per_page)
        /\ ListedTasks(eng) # {}
            => LET r == cmd_status(states, eng, u, "missing", TRUE)
               IN /\ r.shown = "listing"
                  /\ HasCursor(r.states, "status_pages", u)
                  /\ r.states["status_pages"][u].page = 1
                  /\ r.states["status_pages"][u].total
                        = CeilPages(Cardinality(ListedTasks(eng)),
                                    config_items_per_page)

\* C25: whenever remove_download has removed the download from the engine's
\* queue, it returns True: what happens to the purge of the result is not
\* raised.
C25_PurgeFailureNotRaised ==
    \A g \in Gids : \A o \in remove_download(eng, g) :
        o.eng[g] # eng[g] => o.res = "ok"

\* C26: every callback query, whatever its data, its sender and the state of
\* the sender's clear-history conversation, is given to a handler that calls
\* query.answer at least once.
C26_EveryCallbackAnswered ==
    \A c \in Chats, u \in Users, data \in CallbackData, answer_ok \in BOOLEAN :
        answer_calls(dispatch(conv, c, u, data), check_authorized(u), answer_ok) >= 1

WellFormedCursor(st, view, u) ==
    /\ HasCursor(st, view, u)
    /\ st[view][u].page >= 1
    /\ st[view][u].total >= 1

C13_NotifiedMonotonic ==
    [][\A g \in Gids :
          (HasGid(db, g) /\ db[IdOf(db, g)].notified = 1 /\ HasGid(db', g))
          => db'[IdOf(db', g)].notified = 1]_vars

\* C14: the table holds at most one row per gid; add_history on a gid that
\* has a row overwrites the row's columns and keeps its id; and add_history
\* applied twice with the same arguments leaves the table that one
\* application leaves.
C14_UpsertKeyedAndIdempotent ==
    /\ \A i, j \in DOMAIN db : db[i].gid = db[j].gid => i = j
    /\ \A a \in AddArgs :
          LET once == AddHistory(db, seq, self_max_history, tie_order, a)
              twice == AddHistory(once.db, once.seq, self_max_history, tie_order, a)
          IN /\ twice.db = once.db
             /\ (HasGid(db, a.gid) /\ HasGid(once.db, a.gid))
                   => /\ IdOf(once.db, a.gid) = IdOf(db, a.gid)
                      /\ once.db[IdOf(db, a.gid)] = TableRow(a)

\* add_history has overwritten the row of a gid while a younger row exists:
\* the row still carries the id it was inserted with.
C14_Witness ==
    /\ reply.op = "add"
    /\ reply.existed
    /\ HasGid(db, reply.gid)
    /\ IdOf(db, reply.gid) < seq
    /\ Cardinality(DOMAIN db) = 2

C16_ListOrder ==
    reply.op = "list" =>
        \A i, j \in DOMAIN reply.records :
            i < j =>
                LET a == reply.records[i]
                    b == reply.records[j]
                IN \/ db[a].timestamp > db[b].timestamp
                   \/ db[a].timestamp = db[b].timestamp /\ a > b

\* C17: for page >= 1 and page_size >= 1 get_history returns at most
\* page_size rows and the count of all rows, no row for a page past the end,
\* and the handlers' total_pages is the least n >= 1 with n * page_size >=
\* total.
C17_Pagination ==
    (reply.op = "list" /\ reply.page >= 1) =>
        LET total == Cardinality(DOMAIN db) IN
        /\ Len(reply.records) <= reply.page_size
        /\ \A i, j \in DOMAIN reply.records :
              /\ reply.records[i] \in DOMAIN db
              /\ i # j => reply.records[i] # reply.records[j]
        /\ reply.total = total
        /\ (reply.page - 1) * reply.page_size >= total => reply.records = <<>>
        /\ reply.total_pages >= 1
        /\ reply.total_pages * reply.page_size >= total
        /\ reply.total_pages > 1 => (reply.total_pages - 1) * reply.page_size < total

\* A page past the end of a table of two rows was asked for.
C17_Witness ==
    /\ reply.op = "list"
    /\ reply.page >= 2
    /\ reply.records = <<>>
    /\ reply.total = 2
    /\ reply.total_pages = 2

\* C18: after add_history(gid, ..., files, ..., extra) the record
\* get_history_by_gid(gid) returns has the files and the extra that were
\* passed, the empty list and the empty mapping included.
C18_BlobRoundTrip ==
    [][\A a \in AddArgs :
          (StoreAdd(a) /\ HasGid(db', a.gid))
          => LET r == GetHistoryByGid(db', a.gid) IN
             r.item.files = a.files /\ r.item.extra = a.extra]_vars

\* ------------------------------------------------------ claims on SpecMon
MonBusy == mpc \in {"final", "live", "retry"}
EntryDone == MonBusy /\ (mpc' = "sleep" \/ idx' # idx)

\* C1: an entry that was in the tick's snapshot and whose fetch returned a
\* terminal snapshot or TaskNotFound is out of the registry after at most one
\* more tick: no entry stays registered over two consecutive ticks that both
\* fetched a terminal outcome for it.
C1_RetiredWithinOneMoreTick == \A k \in Keys : owed[k] <= 1

\* C2: when the tick has dealt with an entry whose fetch reported complete or
\* error, the history holds the row of that gid with status completed or
\* error and notified = false.
C2_TerminalWritesHistory ==
    [][(/\ EntryDone
        /\ mpc = "final"
        /\ results[idx].kind = "snap"
        /\ results[idx].status \in {"complete", "error"})
       => LET g == current_monitors[idx].gid IN
          /\ g \in DOMAIN history'
          /\ history'[g].status =
                (IF results[idx].status = "complete" THEN "completed" ELSE "error")
          /\ history'[g].notified = FALSE]_vars

\* C4: an edit for a live snapshot is only ever in flight with a text that
\* differs from the text cached for its key: a live entry whose rendered text
\* equals the cached one gets no edit call in that tick.
C4_EditMinimality ==
    mpc \in {"live", "retry"}
        => cur_text # Cached(last_content, current_monitors[idx].key)

\* A tick went past a live entry whose text equals the cached text without
\* calling edit for it, and is now awaiting the edit of a later entry.
C4_Witness ==
    /\ MonBusy
    /\ \E j \in 1..(idx - 1) :
          /\ results[j].kind = "snap"
          /\ ~IsFinished(results[j])
          /\ j \notin issued
          /\ HasKey(monitored_tasks, current_monitors[j].key)
          /\ Cached(last_content, current_monitors[j].key)
                = Render(current_monitors[j].gid, results[j])

\* C19: after register_task(chat_id, message_id, gid), whatever the key held
\* before, the key maps to gid and no text is cached for it.
C19_RegisterInvalidatesCache ==
    [][\A k \in Keys, g \in Gids :
          Register(k, g)
          => (GidOf(monitored_tasks', k) = g /\ k \notin DOMAIN last_content')]_vars


\* The step that ends the await of the final edit of entry idx.
FinalDone == mpc = "final" /\ EntryDone
\* A step of the loop, as opposed to a call of the component's API.
MonitorStep == mpc # "sleep" /\ tickVars' # tickVars

TickResults == IF mpc = "fetch" THEN results' ELSE results

\* C28: no step of the loop, in any tick, changes the registration or the
\* cached text of an entry whose fetch of the tick failed with an error other
\* than TaskNotFound, and no edit is called for that entry in the tick.
C28_FetchErrorKeepsEntry ==
    [][MonitorStep
       => \A j \in 1..Len(TickResults) :
             TickResults[j].kind = "aria2err"
             => LET key == current_monitors[j].key IN
                /\ GidOf(monitored_tasks', key) = GidOf(monitored_tasks, key)
                /\ Cached(last_content', key) = Cached(last_content, key)
                /\ j \notin issued']_vars

\* A tick went past an entry whose fetch failed: the entry is registered with
\* its gid and its cached text, no edit was called for it, and the edit of a
\* later entry is awaited.
C28_Witness ==
    /\ MonBusy
    /\ \E j \in 1..(idx - 1) :
          /\ results[j].kind = "aria2err"
          /\ j \notin issued
          /\ GidOf(monitored_tasks, current_monitors[j].key) = current_monitors[j].gid
          /\ current_monitors[j].key \in DOMAIN last_content

\* C29: a live edit, first attempt or retry, of a registered entry that
\* Telegram answers with "message is not modified" leaves the entry
\* registered with the submitted text as its cached text, so that the same
\* text needs no edit again.
C29_NotModifiedIsSuccess ==
    [][(/\ MonLiveDone("not_modified") \/ MonRetryDone("not_modified")
        /\ HasKey(monitored_tasks, current_monitors[idx].key))
       => LET key == current_monitors[idx].key IN
          /\ HasKey(monitored_tasks', key)
          /\ Cached(last_content', key) = cur_text
          /\ ~NeedsLiveEdit(cur_text, Cached(last_content', key))]_vars

\* C30: a live edit, first attempt or retry, that fails because the message
\* or the chat is gone takes the entry and its cached text out of the
\* registry; nothing is sent and the engine is not called.
C30_MessageGoneUnregisters ==
    [][(MonLiveDone("gone") \/ MonRetryDone("gone"))
       => LET key == current_monitors[idx].key IN
          /\ ~HasKey(monitored_tasks', key)
          /\ key \notin DOMAIN last_content'
          /\ UNCHANGED <<eng, history, sent>>]_vars

\* A tick lost an earlier live entry, which had a cached text when the tick
\* began, to a failed edit, and is awaiting the edit of a later entry.
C30_Witness ==
    /\ MonBusy
    /\ \E j \in 1..(idx - 1) :
          /\ results[j].kind = "snap"
          /\ ~IsFinished(results[j])
          /\ j \in issued
          /\ ~HasKey(monitored_tasks, current_monitors[j].key)

\* The entries after the awaited one that call edit_message_text, given the
\* registry and the cache the awaited edit leaves.
RestNeedingEdit(mt, lc) ==
    {j \in (idx + 1)..Len(current_monitors) :
        NeedsEdit(current_monitors, results, j, mt, lc)}

\* C31: a live edit answered RetryAfter is followed by the wait and one retry
\* of the same edit of the same entry, and what the retry is answered ends
\* the attempts for the entry; a retry that Telegram serves for an entry still
\* registered leaves the submitted text as the entry's cached text, and the
\* tick goes on with the next entry of its snapshot that needs an edit.
C31_RetryOnceThenGoOn ==
    [][/\ MonLiveDone("retry_after")
            => /\ mpc' = "retry"
               /\ UNCHANGED <<idx, cur_text, current_monitors, results,
                              monitored_tasks, last_content>>
       /\ \A o \in EditOutcomes :
            MonRetryDone(o) => (mpc' # "retry" /\ (mpc' = "sleep" \/ idx' > idx))
       /\ (MonRetryDone("ok") /\ HasKey(monitored_tasks, current_monitors[idx].key))
            => LET key == current_monitors[idx].key
                   rest == RestNeedingEdit(monitored_tasks', last_content')
               IN /\ HasKey(monitored_tasks', key)
                  /\ Cached(last_content', key) = cur_text
                  /\ rest # {} => (mpc' \in {"live", "final"} /\ idx' = Min(rest))]_vars

\* The retry of the first entry's edit is awaited while the second entry of
\* the snapshot is still to be edited.
C31_Witness ==
    /\ mpc = "retry"
    /\ idx = 1
    /\ HasKey(monitored_tasks, current_monitors[1].key)
    /\ RestNeedingEdit(monitored_tasks, Put(last_content, current_monitors[1].key, cur_text)) # {}

\* C32: a live edit of an entry registered with the gid of the tick's
\* snapshot that fails with a Telegram error other than "message is not
\* modified" and message or chat gone, at the first attempt or, after
\* RetryAfter, at the retry, leaves the entry registered with that gid.
C32_TransportFailureKeepsEntry ==
    [][\A o \in {"retry_after", "bad_request", "telegram_error"} :
          (/\ \/ (MonLiveDone(o) /\ o # "retry_after")
              \/ MonRetryDone(o)
           /\ GidOf(monitored_tasks, current_monitors[idx].key)
                = current_monitors[idx].gid)
          => GidOf(monitored_tasks', current_monitors[idx].key)
                = current_monitors[idx].gid]_vars

\* C33: whatever happens to the edit of one entry, the tick does not end while
\* a later entry of its snapshot, still registered, has an outcome that calls
\* for an edit or a retirement.
C33_FailuresArePerEntry ==
    [][(mpc \in {"final", "live", "retry"} /\ mpc' = "sleep")
       => RestNeedingEdit(monitored_tasks', last_content') = {}]_vars

\* C39: every key that has a cached text is a key of the registry.
C39_CacheWithinRegistry ==
    \A k \in DOMAIN last_content : HasKey(monitored_tasks, k)

\* ------------------------------------------------------ claims on SpecRace
\* C37: the message is unregistered only by the remove handler, past its edit
\* to the "task removed" text, or by the loop when it leaves the entry; so
\* Telegram serves no live edit of the loop, first attempt or retry, for a
\* message that is not registered when the edit returns.
C37_NoMonitorEditAfterRemove ==
    [][(MonLiveDone("ok") \/ MonRetryDone("ok"))
       => HasKey(monitored_tasks, current_monitors[idx].key)]_vars

\* C38: the loop calls edit_message_text for an entry of its snapshot only
\* while the key is registered with the gid of the snapshot, and a step of the
\* loop that ends an edit, while the key is registered with another gid,
\* leaves that registration in place.
C38_NoStaleOutcomeApplied ==
    [][/\ (mpc' \in {"live", "final"} /\ issued' # issued)
            => GidOf(monitored_tasks', current_monitors'[idx'].key)
                  = current_monitors'[idx'].gid
       /\ \A o \in EditOutcomes :
            ((MonFinalDone(o) \/ MonLiveDone(o) \/ MonRetryDone(o))
             /\ GidOf(monitored_tasks, current_monitors[idx].key)
                    \notin {NoGid, current_monitors[idx].gid})
            => GidOf(monitored_tasks', current_monitors[idx].key)
                  = GidOf(monitored_tasks, current_monitors[idx].key)]_vars

====
